---- MODULE Spec2Model ----
(***************************************************************************)
(* Suit recognition pipeline of Cards.py and the reference-capture script  *)
(* Rank_Suit_Isolator.py.                                                  *)
(*                                                                         *)
(* Library calls (OpenCV, numpy) are modelled by their documented results: *)
(* a contour is the record of what the code reads from it (its area, its   *)
(* simplified polygon), an image is a grid of 8-bit levels.                *)
(*                                                                         *)
(* Specifications:                                                         *)
(*   SpecThresh  preprocess_image on a frame                               *)
(*   SpecFind    find_cards on the contours of a mask                      *)
(*   SpecFlat    flattener on four corner points, the card being turned    *)
(*               by quarter turns between calls                            *)
(*   SpecMatch   match_card on a glyph and a template list                 *)
(*   SpecIso     the Rank_Suit_Isolator.py script                          *)
(*   Spec        the detector: load_suits, then per frame find_cards,      *)
(*               preprocess_card and match_card on every flagged contour   *)
(***************************************************************************)
EXTENDS Integers, Sequences, FiniteSets, TLC

(***************************************************************************)
(* Program constants (Cards.py, lines 11-24 and the literals of the code). *)
(***************************************************************************)
BKG_THRESH == 60

SUIT_WIDTH == 70

SUIT_HEIGHT == 100

SUIT_DIFF_MAX == 700

CARD_MAX_AREA == 120000

CARD_MIN_AREA == 25000

\* best_suit_match_diff before any template is compared (match_card).
INIT_MATCH_DIFF == 10000

(***************************************************************************)
(* Bounds of the model.                                                    *)
(***************************************************************************)
\* Small frames are MaxDim x MaxDim at most (real camera sizes are added).
MaxDim == 4

\* Contours found in one mask.
MaxCnts == 2

\* Corner coordinates range over 0..MaxC.
MaxC == 2

\* An image is NBlocks blocks of equal pixels.
NBlocks == 4

\* Frames the detector processes.
MaxFrames == 2

VARIABLES
    pc,              \* control position
    image,           \* preprocess_image: the frame, [rows, cols, base, dr, dc]
    bkg_px,          \* preprocess_image: <<row, col>> indexed in gray
    thresh_level,    \* preprocess_image: the binarization cutoff
    cnts,            \* find_cards: contours as findContours returned them
    hier,            \* find_cards: hier[0][i][3], the parent of contour i
    cnts_sort,       \* find_cards: returned contour list
    cnt_is_card,     \* find_cards: returned flag list
    card,            \* the physical card: its corners at 0 degrees, [pts, w, h]
    turns,           \* quarter turns applied to the card
    pts,             \* flattener: argument pts
    w,               \* flattener: argument w
    h,               \* flattener: argument h
    temp_rect,       \* flattener: source quadrilateral given to getPerspectiveTransform
    flat,            \* flattener: "none", "warped" or "IndexError"
    suit_img,        \* qCard.suit_img
    train_suits,     \* list of Train_suits records [name, img]
    best_suit_match, \* match_card: returned label
    suit_diff,       \* match_card: returned score
    files,           \* what cv2.imread yields for each suit's file
    i,               \* detector: index of the contour being processed
    frames,          \* detector: frames processed
    Name             \* Rank_Suit_Isolator: index of the suit being captured

threshVars == <<image, bkg_px, thresh_level>>

findVars == <<cnts, hier, cnts_sort, cnt_is_card>>

flatVars == <<card, turns, pts, w, h, temp_rect, flat>>

matchVars == <<suit_img, train_suits, best_suit_match, suit_diff>>

sysVars == <<files, i, frames, Name>>

vars == <<pc, threshVars, findVars, flatVars, matchVars, sysVars>>

None == "None"

Abs(a) == IF a >= 0 THEN a ELSE -a

(***************************************************************************)
(* preprocess_image (Cards.py 68-89)                                       *)
(***************************************************************************)
\* Frame sizes <<rows, cols>>: every small size, three camera sizes (landscape
\* and portrait) and a tall strip.
FrameSizes ==
    ((1..MaxDim) \X (1..MaxDim))
        \cup {<<720, 1280>>, <<480, 640>>, <<1280, 720>>, <<300, 100>>}

\* Frames: a ramp image, level(r, c) = base + dr*r + dc*c (mod 256).
Frames ==
    [rows : {s[1] : s \in FrameSizes}, cols : {s[2] : s \in FrameSizes},
     base : {0, 100, 200}, dr : {0, 1}, dc : {0, 1}]

ValidFrames == {f \in Frames : <<f.rows, f.cols>> \in FrameSizes}

\* gray[r][c] of the frame (cvtColor keeps the frame's size).
GrayLevel(img, r, c) == (img.base + img.dr * r + img.dc * c) % 256

InFrame(img, r, c) == r >= 0 /\ r < img.rows /\ c >= 0 /\ c < img.cols

\* Line 83: img_w, img_h = np.shape(image)[:2]; np.shape is (rows, cols, 3).
img_w(img) == img.rows

img_h(img) == img.cols

\* Line 84: the index gray[int(img_h/100)][int(img_w/2)].
BkgIndex(img) == <<img_h(img) \div 100, img_w(img) \div 2>>

\* Lines 83-87. The result: the pixel indexed and, when it lies in the frame,
\* the cutoff bkg_level + BKG_THRESH (numpy 1.x: uint8 + int is an int64).
preprocess_image(img) ==
    LET ix == BkgIndex(img)
    IN  IF InFrame(img, ix[1], ix[2])
        THEN [status |-> "ok", px |-> ix,
              level |-> GrayLevel(img, ix[1], ix[2]) + BKG_THRESH]
        ELSE [status |-> "IndexError", px |-> ix, level |-> -1]

ThreshIdle == image = None /\ bkg_px = None /\ thresh_level = -1

FindIdle == cnts = <<>> /\ hier = <<>> /\ cnts_sort = <<>> /\ cnt_is_card = <<>>

FlatIdle ==
    /\ card = None /\ turns = 0 /\ pts = <<>> /\ w = 0 /\ h = 0
    /\ temp_rect = <<>> /\ flat = "none"

MatchIdle ==
    /\ suit_img = <<>> /\ train_suits = <<>>
    /\ best_suit_match = None /\ suit_diff = -1

SysIdle == files = None /\ i = 0 /\ frames = 0 /\ Name = 0

InitThresh ==
    /\ pc = "frame"
    /\ image \in ValidFrames
    /\ bkg_px = None /\ thresh_level = -1
    /\ FindIdle /\ FlatIdle /\ MatchIdle /\ SysIdle

PreprocessImage ==
    /\ pc = "frame"
    /\ LET r == preprocess_image(image)
       IN  /\ bkg_px' = r.px
           /\ thresh_level' = r.level
           /\ pc' = IF r.status = "ok" THEN "thresholded" ELSE r.status
    /\ UNCHANGED <<image, findVars, flatVars, matchVars, sysVars>>

NextThresh == PreprocessImage

SpecThresh == InitThresh /\ [][NextThresh]_vars

\* C9: for every frame of width W >= 1 and height H >= 1 preprocess_image
\* succeeds, the pixel it samples is row H/100, column W/2 of the frame, and the
\* cutoff is that pixel's level + 60.
C9_SamplesTopCenter ==
    pc # "frame" =>
        /\ pc = "thresholded"
        /\ bkg_px = <<image.rows \div 100, image.cols \div 2>>
        /\ thresh_level = GrayLevel(image, image.rows \div 100, image.cols \div 2) + 60

(***************************************************************************)
(* find_cards (Cards.py 91-131)                                            *)
(***************************************************************************)
\* Simplified polygons (cv2.approxPolyDP results) of 3, 4 and 5 vertices.
Tri == <<<<0, 0>>, <<1, 2>>, <<0, 2>>>>

TriDiamond == <<<<0, 0>>, <<2, 0>>, <<0, 2>>>>

Quad == <<<<0, 0>>, <<1, 0>>, <<1, 2>>, <<0, 2>>>>

QuadDiamond == <<<<1, 0>>, <<0, 1>>, <<1, 2>>, <<2, 1>>>>

Pent == <<<<0, 0>>, <<1, 0>>, <<1, 1>>, <<1, 2>>, <<0, 2>>>>

\* Twice the contour area (cv2.contourArea is a multiple of 0.5): the values
\* next to both limits, one inside the band and one far outside.
Areas2 ==
    {2 * CARD_MIN_AREA - 1, 2 * CARD_MIN_AREA, 2 * CARD_MIN_AREA + 1,
     2 * CARD_MAX_AREA - 1, 2 * CARD_MAX_AREA, 2 * CARD_MAX_AREA + 1}

\* What the code reads from a contour: its area and its simplified polygon.
ContourKinds(areas, polys) == [area2 : areas, approx : polys]

\* hier[0][i][3]: -1 for a top-level contour, else the parent's index.
Parents == {-1, 0}

\* Contour lists of findContours: contour j carries its identity j.
ContourLists(areas, polys, maxn) ==
    UNION {{[j \in 1..n |-> [id |-> j, area2 |-> f[j].area2, approx |-> f[j].approx]] :
              f \in [1..n -> ContourKinds(areas, polys)]} : n \in 0..maxn}

contourArea2(c) == c.area2

approxPolyDP(c) == c.approx

RECURSIVE InsertDesc(_, _, _)
\* Index j put behind every index whose area is at least as large (sorted is
\* stable, also with reverse=True).
InsertDesc(cs, sorted, j) ==
    IF sorted = <<>>
    THEN <<j>>
    ELSE IF contourArea2(cs[Head(sorted)]) >= contourArea2(cs[j])
         THEN <<Head(sorted)>> \o InsertDesc(cs, Tail(sorted), j)
         ELSE <<j>> \o sorted

RECURSIVE SortDesc(_, _)
SortDesc(cs, n) == IF n = 0 THEN <<>> ELSE InsertDesc(cs, SortDesc(cs, n - 1), n)

\* Line 98: sorted(range(len(cnts)), key=contourArea, reverse=True).
index_sort(cs) == SortDesc(cs, Len(cs))

\* Mutant of hier_sort: the hierarchy left in extraction order.
hier_sort_unsorted(cs, hr) == hr

\* Lines 113-115: hier_sort.append(hier[0][i]) for i in index_sort.
hier_sort(cs, hr) == [j \in 1..Len(cs) |-> hr[index_sort(cs)[j]]]

\* Lines 113-114: cnts_sort.append(cnts[i]) for i in index_sort.
CntsSort(cs) == [j \in 1..Len(cs) |-> cs[index_sort(cs)[j]]]

\* Mutant of IsCardContour: the lower area bound not strict.
IsCardContourLoose(c, parent) ==
    /\ contourArea2(c) < 2 * CARD_MAX_AREA
    /\ contourArea2(c) >= 2 * CARD_MIN_AREA
    /\ parent = -1
    /\ Len(approxPolyDP(c)) = 4

\* Lines 127-128 (areas doubled).
IsCardContour(c, parent) ==
    /\ contourArea2(c) < 2 * CARD_MAX_AREA
    /\ contourArea2(c) > 2 * CARD_MIN_AREA
    /\ parent = -1
    /\ Len(approxPolyDP(c)) = 4

\* Lines 97-131.
find_cards(cs, hr) ==
    IF Len(cs) = 0
    THEN [cnts_sort |-> <<>>, cnt_is_card |-> <<>>]
    ELSE [cnts_sort |-> CntsSort(cs),
          cnt_is_card |->
              [j \in 1..Len(cs) |->
                  IF IsCardContour(CntsSort(cs)[j], hier_sort(cs, hr)[j])
                  THEN 1 ELSE 0]]

InitFind ==
    /\ pc = "mask"
    /\ cnts \in ContourLists(Areas2, {Tri, Quad, Pent}, MaxCnts)
    /\ hier \in [1..Len(cnts) -> Parents]
    /\ cnts_sort = <<>> /\ cnt_is_card = <<>>
    /\ ThreshIdle /\ FlatIdle /\ MatchIdle /\ SysIdle

FindCards ==
    /\ pc = "mask"
    /\ LET r == find_cards(cnts, hier)
       IN  /\ cnts_sort' = r.cnts_sort
           /\ cnt_is_card' = r.cnt_is_card
    /\ pc' = "found"
    /\ UNCHANGED <<cnts, hier, threshVars, flatVars, matchVars, sysVars>>

NextFind == FindCards

SpecFind == InitFind /\ [][NextFind]_vars

\* C2: find_cards flags a contour iff 25000 < area < 120000 (both strict), it
\* has no parent and its simplified polygon has exactly 4 vertices.
C2_FlagIffCard ==
    pc = "found" =>
        \A j \in 1..Len(cnts_sort) :
            (cnt_is_card[j] = 1) <=>
                /\ 2 * 25000 < cnts_sort[j].area2
                /\ cnts_sort[j].area2 < 2 * 120000
                /\ hier[cnts_sort[j].id] = -1
                /\ Len(cnts_sort[j].approx) = 4

\* A flagged contour beside a 4-vertex top-level contour of area exactly 25000.
C2_Witness ==
    /\ pc = "found"
    /\ \E j, k \in 1..Len(cnts_sort) :
          /\ cnt_is_card[j] = 1
          /\ cnt_is_card[k] = 0
          /\ cnts_sort[k].area2 = 2 * 25000
          /\ hier[cnts_sort[k].id] = -1
          /\ Len(cnts_sort[k].approx) = 4

Grid == (0..MaxC) \X (0..MaxC)

Cross(a, b, c) == (b[1] - a[1]) * (c[2] - a[2]) - (b[2] - a[2]) * (c[1] - a[1])

\* The open segments ab and cd cross.
SegCross(a, b, c, d) ==
    /\ Cross(a, b, c) * Cross(a, b, d) < 0
    /\ Cross(c, d, a) * Cross(c, d, b) < 0

\* q is the vertex list of a simple quadrilateral in boundary order: no three
\* vertices on a line, no two sides crossing.
IsSimpleQuad(q) ==
    /\ Cross(q[1], q[2], q[3]) # 0
    /\ Cross(q[2], q[3], q[4]) # 0
    /\ Cross(q[3], q[4], q[1]) # 0
    /\ Cross(q[4], q[1], q[2]) # 0
    /\ ~SegCross(q[1], q[2], q[3], q[4])
    /\ ~SegCross(q[2], q[3], q[4], q[1])

\* The four-vertex polygons approxPolyDP can return for a closed contour:
\* simple quadrilaterals, from any starting vertex, in either winding.
PointLists == {q \in [1..4 -> Grid] : IsSimpleQuad(q)}

\* q is a rectangle (a parallelogram with a right angle), axis-parallel or not.
IsRectangle(q) ==
    /\ q[1][1] + q[3][1] = q[2][1] + q[4][1]
    /\ q[1][2] + q[3][2] = q[2][2] + q[4][2]
    /\ (q[2][1] - q[1][1]) * (q[4][1] - q[1][1])
           + (q[2][2] - q[1][2]) * (q[4][2] - q[1][2]) = 0

\* cv2.boundingRect: <<w, h>> of the upright box, both ends included.
boundingRect(p) ==
    LET xs == {p[j][1] : j \in 1..Len(p)}
        ys == {p[j][2] : j \in 1..Len(p)}
        hi(S) == CHOOSE a \in S : \A b \in S : b <= a
        lo(S) == CHOOSE a \in S : \A b \in S : a <= b
    IN  <<hi(xs) - lo(xs) + 1, hi(ys) - lo(ys) + 1>>

\* np.argmin / np.argmax: the first index of the least / greatest value.
ArgMin(v) ==
    CHOOSE a \in 1..Len(v) :
        /\ \A b \in 1..Len(v) : v[a] <= v[b]
        /\ \A b \in 1..(a - 1) : v[b] > v[a]

ArgMax(v) ==
    CHOOSE a \in 1..Len(v) :
        /\ \A b \in 1..Len(v) : v[a] >= v[b]
        /\ \A b \in 1..(a - 1) : v[b] < v[a]

\* Line 258: s = np.sum(pts, axis = 2), x + y of every point.
PtSum(p) == [j \in 1..Len(p) |-> p[j][1] + p[j][2]]

\* Mutant of PtDiff: x - y in place of y - x.
PtDiffSwapped(p) == [j \in 1..Len(p) |-> p[j][1] - p[j][2]]

\* Line 263: diff = np.diff(pts, axis = -1), y - x of every point.
PtDiff(p) == [j \in 1..Len(p) |-> p[j][2] - p[j][1]]

\* Lines 260-265: the extremal points [tl, tr, br, bl].
Extremal(p) ==
    [tl |-> p[ArgMin(PtSum(p))], br |-> p[ArgMax(PtSum(p))],
     tr |-> p[ArgMin(PtDiff(p))], bl |-> p[ArgMax(PtDiff(p))]]

\* Lines 271, 277, 287 on integers: w <= 0.8*h iff 5w <= 4h, w >= 1.2*h iff
\* 5w >= 6h (the double nearest 0.8 lies above it, the one nearest 1.2 below,
\* and w is a double itself, so the rounded products compare as the exact ones).
IsPortrait(a, b) == 5 * a <= 4 * b

IsLandscape(a, b) == 5 * a >= 6 * b

IsDiamond(a, b) == 5 * a > 4 * b /\ 5 * a < 6 * b

\* Line 256: temp_rect = np.zeros((4,2)).
Zeros4 == [j \in 1..4 |-> <<0, 0>>]

\* Lines 272-275.
PortraitRect(e) == <<e.tl, e.tr, e.br, e.bl>>

\* Mutant of LandscapeRect: the portrait order used for a landscape card.
LandscapeRectAsPortrait(e) == <<e.tl, e.tr, e.br, e.bl>>

\* Lines 278-281.
LandscapeRect(e) == <<e.bl, e.tl, e.tr, e.br>>

\* Lines 256-306: the source quadrilateral, or the IndexError of pts[3] (pts[1])
\* when the diamond branch gets fewer than four points.
flattener(p, a, b) ==
    LET e  == Extremal(p)
        r1 == IF IsPortrait(a, b) THEN PortraitRect(e) ELSE Zeros4
        r2 == IF IsLandscape(a, b) THEN LandscapeRect(e) ELSE r1
    IN  IF IsDiamond(a, b)
        THEN IF Len(p) < 4
             THEN [status |-> "IndexError", rect |-> r2]
             ELSE LET r3 == IF p[2][2] <= p[4][2]
                            THEN <<p[2], p[1], p[4], p[3]>> ELSE r2
                      r4 == IF p[2][2] > p[4][2]
                            THEN <<p[1], p[4], p[3], p[2]>> ELSE r3
                  IN  [status |-> "warped", rect |-> r4]
        ELSE [status |-> "warped", rect |-> r2]

\* A quarter turn of the frame: (x, y) -> (MaxC - y, x), the turn about the
\* card's centre followed by a shift that keeps the corners on the pixel grid.
Turn(q) == <<MaxC - q[2], q[1]>>

TurnAll(p) == [j \in 1..Len(p) |-> Turn(p[j])]

InitFlat ==
    /\ pc = "corners"
    /\ \E q \in PointLists :
          /\ card = [pts |-> q, w |-> boundingRect(q)[1], h |-> boundingRect(q)[2]]
          /\ pts = q
          /\ w = boundingRect(q)[1]
          /\ h = boundingRect(q)[2]
    /\ turns = 0 /\ temp_rect = <<>> /\ flat = "none"
    /\ ThreshIdle /\ FindIdle /\ MatchIdle /\ SysIdle

FlattenerCall ==
    /\ pc = "corners"
    /\ LET r == flattener(pts, w, h)
       IN  /\ temp_rect' = r.rect
           /\ flat' = r.status
    /\ pc' = "flattened"
    /\ UNCHANGED <<card, turns, pts, w, h, threshVars, findVars, matchVars, sysVars>>

\* The card is turned by a further quarter turn and seen again.
TurnCard ==
    /\ pc = "flattened"
    /\ turns < 3
    /\ turns' = turns + 1
    /\ pts' = TurnAll(pts)
    /\ w' = boundingRect(TurnAll(pts))[1]
    /\ h' = boundingRect(TurnAll(pts))[2]
    /\ temp_rect' = <<>>
    /\ flat' = "none"
    /\ pc' = "corners"
    /\ UNCHANGED <<card, threshVars, findVars, matchVars, sysVars>>

NextFlat == FlattenerCall \/ TurnCard

SpecFlat == InitFlat /\ [][NextFlat]_vars

\* The physical corner (its index in the point list) each role slot holds.
RoleOf(rect, p) == [j \in 1..4 |-> CHOOSE m \in 1..Len(p) : p[m] = rect[j]]

\* The roles flattener gives the card as it lies at 0 degrees.
BaseRoles == RoleOf(flattener(card.pts, card.w, card.h).rect, card.pts)

HalfTurn(r) == <<r[3], r[4], r[1], r[2]>>

XmY(q) == q[1] - q[2]

XpY(q) == q[1] + q[2]

PtSet(p) == {p[j] : j \in 1..Len(p)}

\* C1 as stated, for the cards that are rectangles and upright at 0 degrees
\* (where the roles do not depend on the order of the point list): at 0, 90,
\* 180 and 270 degrees flattener gives every role to the same physical corner.
C1_SameRolesAllTurns ==
    (pc = "flattened" /\ IsRectangle(card.pts) /\ IsPortrait(card.w, card.h)) =>
        RoleOf(temp_rect, pts) = BaseRoles

\* C1 amended: for a card whose box is portrait at 0 degrees (w <= 0.8h) the
\* views at 0 and 270 degrees give every role to the same physical corner, the
\* views at 90 and 180 degrees to the diagonally opposite one; for a card whose
\* box is landscape at 0 degrees with h <= 0.8w the same holds with 90 and 270
\* exchanged.
C1_RolesUpToHalfTurn ==
    pc = "flattened" =>
        /\ IsPortrait(card.w, card.h) =>
              RoleOf(temp_rect, pts) =
                  IF turns \in {0, 3} THEN BaseRoles ELSE HalfTurn(BaseRoles)
        /\ IsPortrait(card.h, card.w) =>
              RoleOf(temp_rect, pts) =
                  IF turns \in {0, 1} THEN BaseRoles ELSE HalfTurn(BaseRoles)

\* A portrait card with four distinct roles, turned by 180 degrees and
\* flattened: every role sits on the opposite corner.
C1_Witness ==
    /\ pc = "flattened"
    /\ turns = 2
    /\ IsPortrait(card.w, card.h)
    /\ IsRectangle(card.pts)
    /\ Cardinality(PtSet(temp_rect)) = 4
    /\ RoleOf(temp_rect, pts) = HalfTurn(BaseRoles)
    /\ RoleOf(temp_rect, pts) # BaseRoles

\* C8 as stated: top-left / bottom-right are the points of least / greatest
\* x+y, top-right / bottom-left the points of least / greatest x-y; portrait is
\* (tl, tr, br, bl), landscape (bl, tl, tr, br).
C8_ExtremalAsStated ==
    (pc = "flattened" /\ (IsPortrait(w, h) \/ IsLandscape(w, h))) =>
        LET r == IF IsPortrait(w, h)
                 THEN temp_rect
                 ELSE <<temp_rect[2], temp_rect[3], temp_rect[4], temp_rect[1]>>
        IN  \A q \in PtSet(pts) :
                /\ XpY(r[1]) <= XpY(q)
                /\ XpY(r[3]) >= XpY(q)
                /\ XmY(r[2]) <= XmY(q)
                /\ XmY(r[4]) >= XmY(q)

\* C8 amended: top-left / bottom-right are the points of least / greatest x+y,
\* top-right is the point of greatest x-y (least y-x) and bottom-left the point
\* of least x-y (greatest y-x); portrait fills the slots with (tl, tr, br, bl),
\* landscape with (bl, tl, tr, br).
C8_ExtremalPoints ==
    (pc = "flattened" /\ (IsPortrait(w, h) \/ IsLandscape(w, h))) =>
        LET r == IF IsPortrait(w, h)
                 THEN temp_rect
                 ELSE <<temp_rect[2], temp_rect[3], temp_rect[4], temp_rect[1]>>
        IN  /\ \A j \in 1..4 : r[j] \in PtSet(pts)
            /\ \A q \in PtSet(pts) :
                  /\ XpY(r[1]) <= XpY(q)
                  /\ XpY(r[3]) >= XpY(q)
                  /\ XmY(r[2]) >= XmY(q)
                  /\ XmY(r[4]) <= XmY(q)

\* A landscape card whose top-right and bottom-left differ in x-y.
C8_Witness ==
    /\ pc = "flattened"
    /\ IsLandscape(w, h)
    /\ XmY(temp_rect[3]) > XmY(temp_rect[1])
    /\ XpY(temp_rect[2]) < XpY(temp_rect[4])

\* C10: one orientation class fills the source quadrilateral and the four role
\* slots are a permutation of the four input points.
C10_RolesArePermutation ==
    pc = "flattened" =>
        /\ flat = "warped"
        /\ Cardinality({c \in {"p", "l", "d"} :
                \/ c = "p" /\ IsPortrait(w, h)
                \/ c = "l" /\ IsLandscape(w, h)
                \/ c = "d" /\ IsDiamond(w, h)}) = 1
        /\ PtSet(temp_rect) = PtSet(pts)

(***************************************************************************)
(* match_card (Cards.py 191-224) and load_suits (Cards.py 52-66)           *)
(***************************************************************************)
\* Line 59: the suit names, in loading order.
Suits == <<"Spades", "Diamonds", "Clubs", "Hearts">>

\* Pixel levels: black, a grey of resizing or JPEG coding, white.
Levels == {0, 100, 255}

\* Pixels of one block of a SUIT_WIDTH x SUIT_HEIGHT image.
BlockPx == (SUIT_WIDTH * SUIT_HEIGHT) \div NBlocks

\* An image is [px |-> levels of its blocks]; qCard.suit_img = [] has no pixel.
Images == {[px |-> f] : f \in [1..NBlocks -> Levels]}

EmptyImg == [px |-> <<>>]

\* cv2.imread of a file that is missing or unreadable.
NoneImg == [none |-> TRUE]

\* The reference images tried: all black, all white, and black with the first
\* block grey or white.
TemplateImages ==
    {[px |-> [j \in 1..NBlocks |-> IF j = 1 THEN a ELSE b]] :
        a \in Levels, b \in {0}} \cup {[px |-> [j \in 1..NBlocks |-> 255]]}

\* Template lists as load_suits names them: the first n suits, n = 0..4.
TemplateLists(imgs) ==
    UNION {{[k \in 1..n |-> [name |-> Suits[k], img |-> f[k]]] :
              f \in [1..n -> imgs]} : n \in 0..Len(Suits)}

RECURSIVE SumAbsDiff(_, _, _)
\* np.sum(cv2.absdiff(a, b)) over blocks j..NBlocks.
SumAbsDiff(a, b, j) ==
    IF j > Len(a.px)
    THEN 0
    ELSE Abs(a.px[j] - b.px[j]) * BlockPx + SumAbsDiff(a, b, j + 1)

\* Lines 209-210: int(np.sum(diff_img)/255).
SuitDiff(a, b) == SumAbsDiff(a, b, 1) \div 255

\* Mutant of Improves: a tie replaces the running best.
ImprovesOrTies(d, best) == d <= best

\* Line 212: suit_diff < best_suit_match_diff.
Improves(d, best) == d < best

RECURSIVE MatchLoop(_, _, _, _)
\* Lines 207-215 from template k on; acc is [diff, name, status], the name
\* "<unbound>" until line 215 first assigns best_suit_name.
MatchLoop(glyph, ts, k, acc) ==
    IF k > Len(ts)
    THEN acc
    ELSE IF ts[k].img = NoneImg
         THEN [acc EXCEPT !.status = "cv2.error"]
         ELSE LET d == SuitDiff(glyph, ts[k].img)
              IN  MatchLoop(glyph, ts, k + 1,
                      IF Improves(d, acc.diff)
                      THEN [diff |-> d, name |-> ts[k].name, status |-> "ok"]
                      ELSE acc)

\* Mutant of BelowMax: the comparison inverted.
AboveMax(d) == d > SUIT_DIFF_MAX

\* Line 220: best_suit_match_diff < SUIT_DIFF_MAX.
BelowMax(d) == d < SUIT_DIFF_MAX

\* Lines 197-224: [status, name, diff].
match_card(glyph, ts) ==
    LET acc0 == [diff |-> INIT_MATCH_DIFF, name |-> "<unbound>", status |-> "ok"]
        acc  == IF Len(glyph.px) # 0 THEN MatchLoop(glyph, ts, 1, acc0) ELSE acc0
    IN  IF acc.status # "ok"
        THEN [status |-> acc.status, name |-> None, diff |-> -1]
        ELSE IF BelowMax(acc.diff)
             THEN IF acc.name = "<unbound>"
                  THEN [status |-> "UnboundLocalError", name |-> None, diff |-> -1]
                  ELSE [status |-> "ok", name |-> acc.name, diff |-> acc.diff]
             ELSE [status |-> "ok", name |-> "Unknown", diff |-> acc.diff]

\* Lines 56-66: one record per suit, img whatever cv2.imread returned.
load_suits(fs) == [k \in 1..Len(Suits) |-> [name |-> Suits[k], img |-> fs[k]]]

InitMatch ==
    /\ pc = "glyph"
    /\ suit_img \in Images \cup {EmptyImg}
    /\ train_suits \in TemplateLists(TemplateImages)
    /\ best_suit_match = None /\ suit_diff = -1
    /\ ThreshIdle /\ FindIdle /\ FlatIdle /\ SysIdle

MatchCard ==
    /\ pc = "glyph"
    /\ LET r == match_card(suit_img, train_suits)
       IN  /\ best_suit_match' = r.name
           /\ suit_diff' = r.diff
           /\ pc' = IF r.status = "ok" THEN "matched" ELSE r.status
    /\ UNCHANGED <<suit_img, train_suits, threshVars, findVars, flatVars, sysVars>>

NextMatch == MatchCard

SpecMatch == InitMatch /\ [][NextMatch]_vars

\* The scores of the templates against the glyph.
Scores == {SuitDiff(suit_img, train_suits[k].img) : k \in 1..Len(train_suits)}

LeastOf(S) == CHOOSE a \in S : \A b \in S : a <= b

C4_IdenticalGivesItsName ==
    (pc = "matched" /\ Len(train_suits) = 4) =>
        \A k \in 1..4 :
            train_suits[k].img = suit_img =>
                suit_diff = 0 /\ best_suit_match = train_suits[k].name

\* C4 amended: with 4 templates, a glyph identical to the image of template T
\* gives score 0 and the name of the first template in list order whose image
\* is identical to the glyph (T's name when no earlier template has T's image).
C4_IdenticalGivesFirstName ==
    (pc = "matched" /\ Len(train_suits) = 4) =>
        \A k \in 1..4 :
            train_suits[k].img = suit_img =>
                LET Same(m) == train_suits[m].img = suit_img
                IN  /\ suit_diff = 0
                    /\ best_suit_match =
                           train_suits[CHOOSE f \in 1..4 :
                               Same(f) /\ \A m \in 1..(f - 1) : ~Same(m)].name

\* The glyph equals the images of Diamonds and Hearts only; Diamonds is returned.
C4_Witness ==
    /\ pc = "matched"
    /\ Len(train_suits) = 4
    /\ train_suits[2].img = suit_img
    /\ train_suits[4].img = suit_img
    /\ train_suits[1].img # suit_img
    /\ best_suit_match = "Diamonds"
    /\ suit_diff = 0

(***************************************************************************)
(* preprocess_card (Cards.py 133-189)                                      *)
(***************************************************************************)
\* Lines 143-159: the corner points, the bounding box and the flattener call
\* (the box of the contour is the box of its polygon's vertices).
preprocess_card(c) ==
    LET approx == approxPolyDP(c)
        box    == boundingRect(approx)
    IN  [pts |-> approx, w |-> box[1], h |-> box[2],
         warp |-> flattener(approx, box[1], box[2])]

\* Lines 162-187: the glyph cut from the warped image, [] when the suit band
\* holds no contour.
GlyphsSeen ==
    {EmptyImg, [px |-> [j \in 1..NBlocks |-> 0]], [px |-> [j \in 1..NBlocks |-> 255]]}

(***************************************************************************)
(* Rank_Suit_Isolator.py                                                   *)
(***************************************************************************)
\* The areas of the contours of a captured frame (doubled).
IsoAreas2 == {2 * CARD_MIN_AREA + 1, 2 * CARD_MAX_AREA + 1}

\* The image the script writes for a suit (final_img).
IsoImages == {[px |-> [j \in 1..NBlocks |-> IF j = 1 THEN 255 ELSE 0]]}

InitIso ==
    /\ pc = "capture"
    /\ Name = 1
    /\ files = [k \in 1..Len(Suits) |-> NoneImg]
    /\ i = 0 /\ frames = 0
    /\ ThreshIdle /\ FindIdle /\ FlatIdle /\ MatchIdle

\* Lines 31-66: a frame is captured, its largest contour is taken for the card
\* and flattened; the script quits when the frame has no contour.
IsoCapture ==
    /\ pc = "capture"
    /\ \E cs \in ContourLists(IsoAreas2, {Tri, TriDiamond, Quad, QuadDiamond, Pent}, MaxCnts) :
          /\ cnts' = cs
          /\ cnts_sort' = CntsSort(cs)
          /\ IF Len(cs) = 0
             THEN /\ pc' = "quit"
                  /\ UNCHANGED <<pts, w, h, temp_rect, flat>>
             ELSE LET q == preprocess_card(CntsSort(cs)[1])
                  IN  /\ pts' = q.pts
                      /\ w' = q.w
                      /\ h' = q.h
                      /\ temp_rect' = q.warp.rect
                      /\ flat' = q.warp.status
                      /\ pc' = IF q.warp.status = "warped"
                               THEN "isolate" ELSE q.warp.status
    /\ UNCHANGED <<hier, cnt_is_card, card, turns, threshVars, matchVars, sysVars>>

\* Lines 68-89: the suit contour is cut out (suit_cnts[0] raises IndexError when
\* there is none) and written when "c" is pressed; after the fourth suit line
\* 93 calls close() on the undefined name camera.
IsoSave ==
    /\ pc = "isolate"
    /\ \E found \in BOOLEAN, key_c \in BOOLEAN, img \in IsoImages :
          IF ~found
          THEN pc' = "IndexError" /\ UNCHANGED <<files, Name>>
          ELSE /\ files' = IF key_c THEN [files EXCEPT ![Name] = img] ELSE files
               /\ Name' = Name + 1
               /\ pc' = IF Name < Len(Suits) THEN "capture" ELSE "NameError"
    /\ UNCHANGED <<i, frames, threshVars, findVars, flatVars, matchVars>>

NextIso == IsoCapture \/ IsoSave

SpecIso == InitIso /\ [][NextIso]_vars

\* C6: flattener is never run to the perspective transform with a point list
\* whose length is not 4.
C6_FlattenerGetsFourPoints ==
    flat = "warped" => Len(pts) = 4

(***************************************************************************)
(* The detector: load_suits once, then every frame through find_cards,     *)
(* preprocess_card and match_card.                                         *)
(***************************************************************************)
\* The areas of the contours of a frame (doubled): in the band and above it.
FrameAreas2 == {2 * CARD_MIN_AREA + 1, 2 * CARD_MAX_AREA}

\* What cv2.imread returns for the four suit files.
FileSets == [1..Len(Suits) -> {[px |-> [j \in 1..NBlocks |-> 0]], NoneImg}]

Init ==
    /\ pc = "start"
    /\ files \in FileSets
    /\ i = 0 /\ frames = 0 /\ Name = 0
    /\ ThreshIdle /\ FindIdle /\ FlatIdle /\ MatchIdle

\* train_suits = Cards.load_suits(path)
LoadSuits ==
    /\ pc = "start"
    /\ train_suits' = load_suits(files)
    /\ pc' = "frame"
    /\ UNCHANGED <<suit_img, best_suit_match, suit_diff, threshVars, findVars,
                   flatVars, sysVars>>

\* A frame is grabbed and thresholded, and find_cards runs on its contours.
FrameFindCards ==
    /\ pc = "frame"
    /\ frames < MaxFrames
    /\ \E cs \in ContourLists(FrameAreas2, {Tri, Quad, QuadDiamond}, MaxCnts) :
          \E hr \in [1..Len(cs) -> Parents] :
              /\ cnts' = cs
              /\ hier' = hr
              /\ cnts_sort' = find_cards(cs, hr).cnts_sort
              /\ cnt_is_card' = find_cards(cs, hr).cnt_is_card
    /\ frames' = frames + 1
    /\ i' = 1
    /\ pc' = "cards"
    /\ UNCHANGED <<files, Name, threshVars, flatVars, matchVars>>

\* A contour that is not flagged is passed over.
SkipContour ==
    /\ pc = "cards"
    /\ i <= Len(cnts_sort)
    /\ cnt_is_card[i] # 1
    /\ i' = i + 1
    /\ UNCHANGED <<pc, files, frames, Name, threshVars, findVars, flatVars, matchVars>>

\* preprocess_card on a flagged contour.
PreprocessCard ==
    /\ pc = "cards"
    /\ i <= Len(cnts_sort)
    /\ cnt_is_card[i] = 1
    /\ LET q == preprocess_card(cnts_sort[i])
       IN  /\ pts' = q.pts
           /\ w' = q.w
           /\ h' = q.h
           /\ temp_rect' = q.warp.rect
           /\ flat' = q.warp.status
           /\ pc' = IF q.warp.status = "warped" THEN "match" ELSE q.warp.status
    /\ suit_img' \in GlyphsSeen
    /\ UNCHANGED <<card, turns, train_suits, best_suit_match, suit_diff,
                   threshVars, findVars, sysVars>>

\* match_card on the card just preprocessed.
DetectorMatchCard ==
    /\ pc = "match"
    /\ LET r == match_card(suit_img, train_suits)
       IN  /\ best_suit_match' = r.name
           /\ suit_diff' = r.diff
           /\ pc' = IF r.status = "ok" THEN "cards" ELSE r.status
    /\ i' = i + 1
    /\ UNCHANGED <<suit_img, train_suits, files, frames, Name, threshVars,
                   findVars, flatVars>>

\* Every contour of the frame is done: the next frame.
FrameDone ==
    /\ pc = "cards"
    /\ i > Len(cnts_sort)
    /\ pc' = "frame"
    /\ UNCHANGED <<threshVars, findVars, flatVars, matchVars, sysVars>>

Next ==
    \/ LoadSuits
    \/ FrameFindCards
    \/ SkipContour
    \/ PreprocessCard
    \/ DetectorMatchCard
    \/ FrameDone

Spec == Init /\ [][Next]_vars

\* C5: match_card is never reached with a template list that is partial or
\* holds a template whose image was not loaded.
C5_MatchOnlyWithAllTemplates ==
    pc = "match" =>
        /\ Len(train_suits) = 4
        /\ \A k \in 1..Len(train_suits) : train_suits[k].img # NoneImg

====
